---- MODULE Spec2Model ----
(***************************************************************************)
(* json-to-nestjs-dto: src/index.ts.                                       *)
(*                                                                         *)
(* One run of the converter: ensure the output directory, read and parse   *)
(* the input file, walk the document (processJsonProperties), insert the   *)
(* root into the registry and write one file per registry entry            *)
(* (generateDtoFiles / generateDtoClass).                                  *)
(*                                                                         *)
(* Strings the program computes with (keys, shape names, type names) are   *)
(* sequences of one-character strings, so that camelCase / upperFirst and  *)
(* the template `${prefix}-${key}` are computed, not assumed.              *)
(***************************************************************************)
EXTENDS Integers, Sequences, FiniteSets, TLC

(***************************************************************************)
(* Bounds of the model.                                                    *)
(***************************************************************************)
\* largest length of an array of an input document
MaxArrLen == 2

(***************************************************************************)
(* Characters and the lodash string helpers used by the walker.            *)
(***************************************************************************)
LowerChars == {"a", "b", "c"}
UpperChars == {"A", "B", "C"}
DigitChars == {"0", "1", "2", "3"}

ToUpperChar(ch) ==
  CASE ch = "a" -> "A" [] ch = "b" -> "B" [] ch = "c" -> "C" [] OTHER -> ch

ToLowerChar(ch) ==
  CASE ch = "A" -> "a" [] ch = "B" -> "b" [] ch = "C" -> "c" [] OTHER -> ch

IsLetter(ch) == ch \in LowerChars \cup UpperChars
IsAlnum(ch) == IsLetter(ch) \/ ch \in DigitChars

\* A word of lodash `words` ends between prev and ch (both alphanumeric):
\* lower|Upper, letter|digit, digit|letter, and Upper|Upper-lower.
WordBreak(prev, ch, nxt) ==
  \/ prev \in LowerChars /\ ch \in UpperChars
  \/ IsLetter(prev) /\ ch \in DigitChars
  \/ prev \in DigitChars /\ IsLetter(ch)
  \/ prev \in UpperChars /\ ch \in UpperChars /\ nxt \in LowerChars

RECURSIVE WordsFrom(_, _, _)
WordsFrom(s, i, cur) ==
  IF i > Len(s)
  THEN IF cur = <<>> THEN <<>> ELSE <<cur>>
  ELSE LET ch == s[i]
           nxt == IF i < Len(s) THEN s[i + 1] ELSE "-"
       IN IF ~IsAlnum(ch)
          THEN (IF cur = <<>> THEN <<>> ELSE <<cur>>) \o WordsFrom(s, i + 1, <<>>)
          ELSE IF cur # <<>> /\ WordBreak(cur[Len(cur)], ch, nxt)
               THEN <<cur>> \o WordsFrom(s, i + 1, <<ch>>)
               ELSE WordsFrom(s, i + 1, Append(cur, ch))

\* lodash words(string) on the model's alphabet
Words(s) == WordsFrom(s, 1, <<>>)

LowerWord(w) == [i \in 1..Len(w) |-> ToLowerChar(w[i])]

\* lodash upperFirst
upperFirst(s) ==
  IF s = <<>> THEN <<>> ELSE <<ToUpperChar(s[1])>> \o Tail(s)

RECURSIVE CamelJoin(_, _)
CamelJoin(ws, i) ==
  IF i > Len(ws) THEN <<>>
  ELSE (IF i = 1 THEN LowerWord(ws[i]) ELSE upperFirst(LowerWord(ws[i])))
       \o CamelJoin(ws, i + 1)

\* lodash camelCase
camelCase(s) == CamelJoin(Words(s), 1)

\* the template `${prefix}-${key}` (lines 143, 148)
PrefixKey(prefix, key) == prefix \o <<"-">> \o key

\* upperFirst(camelCase(`${prefix}-${key}`)) (lines 143, 161)
DtoName(prefix, key) == upperFirst(camelCase(PrefixKey(prefix, key)))

(***************************************************************************)
(* JSON values.  A document is the value JSON.parse returns (line 36):     *)
(* [t, v] with t the JSON kind; v is the literal text of a primitive, the  *)
(* element sequence of an array, the <<key, value>> sequence of an object  *)
(* in the order of the document's text.                                    *)
(***************************************************************************)
JNull == [t |-> "null", v |-> "null"]
JTrue == [t |-> "boolean", v |-> "true"]
JNum == [t |-> "number", v |-> "1"]
JStr == [t |-> "string", v |-> "\"s\""]
JArr(elems) == [t |-> "array", v |-> elems]
JObj(members) == [t |-> "object", v |-> members]

TString == <<"s", "t", "r", "i", "n", "g">>
TNumber == <<"n", "u", "m", "b", "e", "r">>
TBoolean == <<"b", "o", "o", "l", "e", "a", "n">>
TObject == <<"o", "b", "j", "e", "c", "t">>

\* JavaScript `typeof` of a parsed JSON value
TypeOf(value) ==
  CASE value.t = "string" -> TString
    [] value.t = "number" -> TNumber
    [] value.t = "boolean" -> TBoolean
    [] OTHER -> TObject

DigitVal(ch) == CASE ch = "0" -> 0 [] ch = "1" -> 1 [] ch = "2" -> 2 [] OTHER -> 3
DigitOf(n) == CASE n = 0 -> "0" [] n = 1 -> "1" [] n = 2 -> "2" [] OTHER -> "3"

\* a property key that is an array index ("0", "1", "10", not "01")
IsIndexKey(key) ==
  /\ Len(key) >= 1
  /\ \A i \in 1..Len(key) : key[i] \in DigitChars
  /\ (Len(key) = 1 \/ key[1] # "0")

RECURSIVE IndexValue(_)
IndexValue(key) ==
  IF key = <<>> THEN 0
  ELSE 10 * IndexValue(SubSeq(key, 1, Len(key) - 1)) + DigitVal(key[Len(key)])

IndexBefore(m1, m2) == IndexValue(m1[1]) < IndexValue(m2[1])

\* Object.entries (line 126): own enumerable string-keyed properties, the
\* array-index keys first in ascending numeric order, then the other keys in
\* creation order; for an array its indices "0", "1", ...
ObjectEntries(data) ==
  IF data.t = "array"
  THEN [i \in 1..Len(data.v) |-> << <<DigitOf(i - 1)>>, data.v[i] >>]
  ELSE SortSeq(SelectSeq(data.v, LAMBDA m : IsIndexKey(m[1])), IndexBefore)
       \o SelectSeq(data.v, LAMBDA m : ~IsIndexKey(m[1]))

(***************************************************************************)
(* The registry: a JavaScript Map<string, DtoProperty[]>, a sequence of    *)
(* entries in first-insertion order.                                       *)
(***************************************************************************)
MapHas(m, name) == \E i \in 1..Len(m) : m[i].name = name

MapGet(m, name) == m[CHOOSE i \in 1..Len(m) : m[i].name = name].props

MapKeys(m) == {m[i].name : i \in 1..Len(m)}

\* MapSet that keeps the field list first bound to a name
MapSet_KeepFirst(m, name, props) ==
  IF MapHas(m, name) THEN m
  ELSE Append(m, [name |-> name, props |-> props])

\* Map.prototype.set: replaces the value of a bound name in place, appends
\* an entry for a new one
MapSet(m, name, props) ==
  IF MapHas(m, name)
  THEN [i \in 1..Len(m) |->
          IF m[i].name = name THEN [name |-> name, props |-> props] ELSE m[i]]
  ELSE Append(m, [name |-> name, props |-> props])

\* MapMerge that forgets the shapes found below the nested object
MapMerge_Skip(m, other, i) == m

\* nestedResult.nestedDtos.forEach(... nestedDtos.set ...) (lines 151-153)
RECURSIVE MapMerge(_, _, _)
MapMerge(m, other, i) ==
  IF i > Len(other) THEN m
  ELSE MapMerge(MapSet(m, other[i].name, other[i].props), other, i + 1)

(***************************************************************************)
(* processJsonProperties (lines 119-183).                                  *)
(***************************************************************************)
Thrown == [ok |-> FALSE, props |-> <<>>, nestedDtos |-> <<>>]

\* ActualValue that samples the last element of an array
ActualValue_Last(value) ==
  IF value.t = "array" /\ Len(value.v) # 0 THEN value.v[Len(value.v)] ELSE value

\* let actualValue = prop.isArray && value.length ? value[0] : value (135)
ActualValue(value) ==
  IF value.t = "array" /\ Len(value.v) # 0 THEN value.v[1] ELSE value

\* the condition of line 137-141
IsPlainObject(actualValue) == actualValue.t = "object"

\* the condition of lines 155-159 (on the else path of 137)
IsArrayOfObjectTyped(value, actualValue) ==
  value.t = "array" /\ TypeOf(actualValue) = TObject

\* lines 173-175
PrimitiveType(value) ==
  IF value.t = "array"
  THEN (IF Len(value.v) # 0 THEN TypeOf(value.v[1]) ELSE TString)
  ELSE TypeOf(value)

\* the descriptor of lines 127-133 after the reference branch (142-144,
\* 160-162)
ReferenceProp(key, value, name) ==
  [name |-> key, type |-> name, isArray |-> value.t = "array",
   isObject |-> TRUE, example |-> value,
   hasNestedDtoName |-> TRUE, nestedDtoName |-> name]

\* the descriptor of lines 127-133 after the primitive branch (173-175)
PrimitiveProp(key, value) ==
  [name |-> key, type |-> PrimitiveType(value), isArray |-> value.t = "array",
   isObject |-> FALSE, example |-> value,
   hasNestedDtoName |-> FALSE, nestedDtoName |-> <<>>]

RECURSIVE processJsonProperties(_, _)
RECURSIVE ProcessEntries(_, _, _, _)

\* the loop of line 126, from entry i on, with the props and nestedDtos
\* accumulated so far
ProcessEntries(entries, i, prefix, acc) ==
  IF i > Len(entries) THEN acc
  ELSE
    LET key == entries[i][1]
        value == entries[i][2]
        actualValue == ActualValue(value)
    IN IF IsPlainObject(actualValue) \/ IsArrayOfObjectTyped(value, actualValue)
       THEN LET name == DtoName(prefix, key)
                nestedResult ==
                  processJsonProperties(actualValue, PrefixKey(prefix, key))
            IN IF ~nestedResult.ok THEN Thrown
               ELSE ProcessEntries(entries, i + 1, prefix,
                      [ok |-> TRUE,
                       props |-> Append(acc.props, ReferenceProp(key, value, name)),
                       nestedDtos |->
                         MapMerge(MapSet(acc.nestedDtos, name, nestedResult.props),
                                  nestedResult.nestedDtos, 1)])
       ELSE ProcessEntries(entries, i + 1, prefix,
              [ok |-> TRUE,
               props |-> Append(acc.props, PrimitiveProp(key, value)),
               nestedDtos |-> acc.nestedDtos])

\* Object.entries(null) throws a TypeError
processJsonProperties(data, prefix) ==
  IF data.t = "null" THEN Thrown
  ELSE ProcessEntries(ObjectEntries(data), 1, prefix,
                      [ok |-> TRUE, props |-> <<>>, nestedDtos |-> <<>>])

(***************************************************************************)
(* generateDtoClass (lines 49-116).  A text is a sequence of lines joined  *)
(* by "\n"; a line is a sequence of chunks: the literal pieces of the      *)
(* template strings, and the characters of the interpolated strings.       *)
(***************************************************************************)
\* const indent (line 18)
Indent == "  "

TArray == <<"a", "r", "r", "a", "y">>

\* typeToValidator[prop.type] || "IsString" (lines 21-27, 97)
Validator(type) ==
  CASE type = TString -> "IsString"
    [] type = TNumber -> "IsNumber"
    [] type = TBoolean -> "IsBoolean"
    [] type = TObject -> "IsObject"
    [] type = TArray -> "IsArray"
    [] OTHER -> "IsString"

\* a line break of the pretty-printer at nesting level n (indent 2)
RECURSIVE NewLine(_)
NewLine(n) == IF n = 0 THEN <<"\n">> ELSE NewLine(n - 1) \o <<Indent>>

RECURSIVE Stringify(_, _)
RECURSIVE StringifyItems(_, _, _, _)

\* the members of an array or an object from item i on
StringifyItems(items, isObj, i, n) ==
  IF i > Len(items) THEN <<>>
  ELSE NewLine(n)
       \o (IF isObj
           THEN <<"\"">> \o items[i][1] \o <<"\"", ": ">>
                \o Stringify(items[i][2], n)
           ELSE Stringify(items[i], n))
       \o (IF i < Len(items) THEN <<",">> ELSE <<>>)
       \o StringifyItems(items, isObj, i + 1, n)

\* JSON.stringify(prop.example, null, 2) (lines 79-83)
Stringify(value, n) ==
  CASE value.t = "array" ->
         IF value.v = <<>> THEN <<"[]">>
         ELSE <<"[">> \o StringifyItems(value.v, FALSE, 1, n + 1)
              \o NewLine(n) \o <<"]">>
    [] value.t = "object" ->
         IF value.v = <<>> THEN <<"{}">>
         ELSE <<"{">> \o StringifyItems(ObjectEntries(value), TRUE, 1, n + 1)
              \o NewLine(n) \o <<"}">>
    [] OTHER -> <<value.v>>

\* truthiness of prop.nestedDtoName: undefined and "" are falsy (62, 87, 93)
NestedDtoNameTruthy(prop) == prop.hasNestedDtoName /\ prop.nestedDtoName # <<>>

\* the import statement of line 67
ImportLine(name) ==
  <<"import { ">> \o name \o <<" } from './">> \o name \o <<".dto';">>

\* lines 58-70
RECURSIVE NestedImports(_, _)
NestedImports(properties, i) ==
  IF i > Len(properties) THEN <<>>
  ELSE (IF NestedDtoNameTruthy(properties[i])
        THEN <<ImportLine(properties[i].nestedDtoName)>>
        ELSE <<>>)
       \o NestedImports(properties, i + 1)

EachArg(prop) == IF prop.isArray THEN "{ each: true }" ELSE ""

ApiPropertyLine(prop) ==
  <<Indent, "@ApiProperty({ example: ">> \o Stringify(prop.example, 0) \o <<" })">>

ExposeLine(prop) == <<Indent, "@Expose({ name: '">> \o prop.name \o <<"' })">>

ValidateNestedLine(prop) == <<Indent, "@ValidateNested(", EachArg(prop), ")">>

TypeLine(prop) == <<Indent, "@Type(() => ">> \o prop.nestedDtoName \o <<")">>

IsArrayLine == <<Indent, "@IsArray()">>

ValidatorLine(prop) == <<Indent, "@", Validator(prop.type), "(", EachArg(prop), ")">>

\* lines 103-105
PropertyLine(prop) ==
  <<Indent>> \o camelCase(prop.name) \o <<": ">> \o prop.type
  \o <<IF prop.isArray THEN "[]" ELSE "", ";">>

\* the branch of line 87
RendersAsReference(prop) == prop.isObject /\ NestedDtoNameTruthy(prop)

\* the callback of properties.map (lines 77-110): the lines of one field
FieldLines(prop) ==
  <<ApiPropertyLine(prop), ExposeLine(prop)>>
  \o (IF RendersAsReference(prop)
      THEN <<ValidateNestedLine(prop), TypeLine(prop)>>
      ELSE (IF prop.isArray /\ ~NestedDtoNameTruthy(prop)
            THEN <<IsArrayLine>> ELSE <<>>)
           \o <<ValidatorLine(prop)>>)
  \o <<PropertyLine(prop)>>

BaseImports ==
  << <<"import { ApiProperty } from '@nestjs/swagger';">>,
     <<"import { Expose, Type } from 'class-transformer';">>,
     <<"import { IsArray, IsBoolean, IsNumber, IsObject, IsString, ValidateNested } from 'class-validator';">> >>

\* The returned text (lines 113-115) is
\*   imports joined by "\n", "", "export class <className> {",
\*   the fields' line blocks separated by an empty line, "}";
\* it is kept as these three parts.
generateDtoClass(className, properties) ==
  [imports |-> BaseImports \o NestedImports(properties, 1),
   className |-> className,
   classContent |-> [i \in 1..Len(properties) |-> FieldLines(properties[i])]]

\* `${nestedClassName}.dto.ts` (line 196)
DtoFileName(name) == name \o <<".dto.ts">>

(***************************************************************************)
(* Input documents of the model.                                           *)
(***************************************************************************)
Prims == {JNull, JTrue, JNum, JStr}

Leaves == Prims \cup {JArr(<<>>), JObj(<<>>)}

RootKeys == { <<"a">>, <<"a", "B">>, <<"_">>, <<"0">> }

InnerKeys == { <<"b">>, <<"_">> }

InnerVals == {JNum, JArr(<<>>), JObj(<<>>)}

ObjB == JObj(<< << <<"b">>, JNum >> >>)
ObjC == JObj(<< << <<"c">>, JNum >> >>)

\* nested objects: one member over InnerVals, or two number members
InnerObjs ==
  {JObj(<< <<k, v>> >>) : k \in InnerKeys, v \in InnerVals}
  \cup {JObj(<< <<kk[1], JNum>>, <<kk[2], JNum>> >>) :
          kk \in {p \in InnerKeys \X InnerKeys : p[1] # p[2]}}

ArrElems == {JNull, JNum, JArr(<<>>), ObjB, ObjC}

Arrays ==
  UNION {{JArr(e) : e \in [1..n -> ArrElems]} : n \in 1..MaxArrLen}

DeepVals == Leaves \cup InnerObjs \cup Arrays

ShallowVals == {JNum, ObjB}

\* the members of the root object: none, one, or two with distinct keys of
\* which one has its value in ShallowVals
RootMembers ==
  { <<>> }
  \cup { << <<k, v>> >> : k \in RootKeys, v \in DeepVals }
  \cup { << <<kk[1], vv[1]>>, <<kk[2], vv[2]>> >> :
           kk \in {p \in RootKeys \X RootKeys : p[1] # p[2]},
           vv \in (DeepVals \X ShallowVals) \cup (ShallowVals \X DeepVals) }

Docs == {JObj(ms) : ms \in RootMembers}

\* args[2] || "RootDto" (line 15)
DefaultRootDtoName == <<"R", "o", "o", "t", "D", "t", "o">>

RootDtoNames == {DefaultRootDtoName, <<"A">>}

\* the file at jsonFilePath: absent, not JSON, or the text of a document
InputFiles ==
  {[status |-> "missing", doc |-> JNull], [status |-> "malformed", doc |-> JNull]}
  \cup {[status |-> "json", doc |-> d] : d \in Docs}

(***************************************************************************)
(* One run of the program (module top level and generateDtoFiles).         *)
(***************************************************************************)
VARIABLES
  pc,            \* position of the run
  argsGiven,     \* args.length > 0 (line 7)
  inputFile,     \* the file at jsonFilePath
  rootDtoName,   \* args[2] || "RootDto"
  outDirExists,  \* fs.existsSync(outputDir)
  mkdirCalls,    \* number of directories the run created
  jsonData,      \* the parsed document
  walkerCalls,   \* number of calls of processJsonProperties by generateDtoFiles
  props,         \* the root's field list (line 188)
  nestedDtos,    \* the registry (lines 188, 193)
  next,          \* position of nestedDtos.forEach (line 194)
  files,         \* the fs.writeFileSync calls so far, in order
  error          \* the exception that ended the run, "" if none

vars == <<pc, argsGiven, inputFile, rootDtoName, outDirExists, mkdirCalls, jsonData,
          walkerCalls, props, nestedDtos, next, files, error>>

Init ==
  /\ pc = "args"
  /\ \/ /\ argsGiven = TRUE
        /\ inputFile \in InputFiles
        /\ rootDtoName \in RootDtoNames
     \/ /\ argsGiven = FALSE
        /\ inputFile = [status |-> "missing", doc |-> JNull]
        /\ rootDtoName = DefaultRootDtoName
  /\ outDirExists \in BOOLEAN
  /\ mkdirCalls = 0
  /\ jsonData = JNull
  /\ walkerCalls = 0
  /\ props = <<>>
  /\ nestedDtos = <<>>
  /\ next = 0
  /\ files = <<>>
  /\ error = ""

\* lines 7-11: no argument, usage message and process.exit(1)
Usage ==
  /\ pc = "args"
  /\ ~argsGiven
  /\ pc' = "exited"
  /\ UNCHANGED <<argsGiven, inputFile, rootDtoName, outDirExists, mkdirCalls,
                 jsonData, walkerCalls, props, nestedDtos, next, files, error>>

\* lines 7-15: the arguments are read
ReadArgs ==
  /\ pc = "args"
  /\ argsGiven
  /\ pc' = "mkdir"
  /\ UNCHANGED <<argsGiven, inputFile, rootDtoName, outDirExists, mkdirCalls,
                 jsonData, walkerCalls, props, nestedDtos, next, files, error>>

\* lines 29-32
EnsureOutputDir ==
  /\ pc = "mkdir"
  /\ outDirExists' = TRUE
  /\ mkdirCalls' = IF outDirExists THEN mkdirCalls ELSE mkdirCalls + 1
  /\ pc' = "read"
  /\ UNCHANGED <<argsGiven, inputFile, rootDtoName, jsonData, walkerCalls, props,
                 nestedDtos, next, files, error>>

\* line 36, fs.readFileSync throws
ReadFails ==
  /\ pc = "read"
  /\ inputFile.status = "missing"
  /\ pc' = "aborted"
  /\ error' = "ENOENT"
  /\ UNCHANGED <<argsGiven, inputFile, rootDtoName, outDirExists, mkdirCalls, jsonData,
                 walkerCalls, props, nestedDtos, next, files>>

\* ParseFails that recovers with an empty document and goes on
ParseFails_Recovers ==
  /\ pc = "read"
  /\ inputFile.status = "malformed"
  /\ jsonData' = JObj(<<>>)
  /\ pc' = "walk"
  /\ UNCHANGED <<argsGiven, inputFile, rootDtoName, outDirExists, mkdirCalls,
                 walkerCalls, props, nestedDtos, next, files, error>>

\* line 36, JSON.parse throws
ParseFails ==
  /\ pc = "read"
  /\ inputFile.status = "malformed"
  /\ pc' = "aborted"
  /\ error' = "SyntaxError"
  /\ UNCHANGED <<argsGiven, inputFile, rootDtoName, outDirExists, mkdirCalls, jsonData,
                 walkerCalls, props, nestedDtos, next, files>>

\* line 36
ReadAndParse ==
  /\ pc = "read"
  /\ inputFile.status = "json"
  /\ jsonData' = inputFile.doc
  /\ pc' = "walk"
  /\ UNCHANGED <<argsGiven, inputFile, rootDtoName, outDirExists, mkdirCalls,
                 walkerCalls, props, nestedDtos, next, files, error>>

\* lines 202, 188: generateDtoFiles calls processJsonProperties(data)
Walk ==
  /\ pc = "walk"
  /\ walkerCalls' = walkerCalls + 1
  /\ LET result == processJsonProperties(jsonData, <<>>)
     IN IF result.ok
        THEN /\ props' = result.props
             /\ nestedDtos' = result.nestedDtos
             /\ pc' = "insert"
             /\ error' = error
        ELSE /\ pc' = "aborted"
             /\ error' = "TypeError"
             /\ UNCHANGED <<props, nestedDtos>>
  /\ UNCHANGED <<argsGiven, inputFile, rootDtoName, outDirExists, mkdirCalls, jsonData,
                 next, files>>

\* InsertRoot that starts the emission without the root in the registry
InsertRoot_NoRoot ==
  /\ pc = "insert"
  /\ next' = 1
  /\ pc' = "emit"
  /\ UNCHANGED <<argsGiven, inputFile, rootDtoName, outDirExists, mkdirCalls, jsonData,
                 walkerCalls, props, nestedDtos, files, error>>

\* line 193
InsertRoot ==
  /\ pc = "insert"
  /\ nestedDtos' = MapSet(nestedDtos, rootDtoName, props)
  /\ next' = 1
  /\ pc' = "emit"
  /\ UNCHANGED <<argsGiven, inputFile, rootDtoName, outDirExists, mkdirCalls, jsonData,
                 walkerCalls, props, files, error>>

\* one iteration of nestedDtos.forEach (lines 194-199)
WriteDtoFile ==
  /\ pc = "emit"
  /\ next <= Len(nestedDtos)
  /\ files' = Append(files,
                [name |-> DtoFileName(nestedDtos[next].name),
                 text |-> generateDtoClass(nestedDtos[next].name,
                                           nestedDtos[next].props)])
  /\ next' = next + 1
  /\ UNCHANGED <<pc, argsGiven, inputFile, rootDtoName, outDirExists, mkdirCalls,
                 jsonData, walkerCalls, props, nestedDtos, error>>

\* the forEach is exhausted and generateDtoFiles returns (line 200)
Finish ==
  /\ pc = "emit"
  /\ next > Len(nestedDtos)
  /\ pc' = "done"
  /\ UNCHANGED <<argsGiven, inputFile, rootDtoName, outDirExists, mkdirCalls, jsonData,
                 walkerCalls, props, nestedDtos, next, files, error>>

Next ==
  \/ Usage
  \/ ReadArgs
  \/ EnsureOutputDir
  \/ ReadFails
  \/ ParseFails
  \/ ReadAndParse
  \/ Walk
  \/ InsertRoot
  \/ WriteDtoFile
  \/ Finish

Spec == Init /\ [][Next]_vars

(***************************************************************************)
(* Vocabulary of the properties.                                           *)
(***************************************************************************)
\* processJsonProperties has returned to generateDtoFiles
WalkReturned == pc \in {"insert", "emit", "done"}

\* the root has been inserted into the registry
RootInserted == pc \in {"emit", "done"}

InputUnusable == argsGiven /\ inputFile.status \in {"missing", "malformed"}

\* every field list the run holds: the root's and the registry's
FieldLists == {props} \cup {nestedDtos[i].props : i \in 1..Len(nestedDtos)}

FieldsOf(ps) == {ps[i] : i \in 1..Len(ps)}

AllFields == UNION {FieldsOf(ps) : ps \in FieldLists}

FileNames == {files[i].name : i \in 1..Len(files)}

\* the representative of a value: the first element of a non-empty array,
\* otherwise the value itself
Representative(value) ==
  IF value.t = "array" /\ value.v # <<>> THEN value.v[1] ELSE value

IsReferenceField(f) == f.isObject /\ f.hasNestedDtoName /\ f.type = f.nestedDtoName

IsPrimitiveField(f) == ~f.isObject /\ ~f.hasNestedDtoName

\* the primitive kind of a classified value
KindOf(value) ==
  CASE value.t = "null" -> TObject
    [] value.t = "boolean" -> TBoolean
    [] value.t = "number" -> TNumber
    [] OTHER -> TString

KeysOfMembers(members) == [i \in 1..Len(members) |-> members[i][1]]

NamesOfFields(ps) == [i \in 1..Len(ps) |-> ps[i].name]

RECURSIVE ObjectShapeNames(_, _)

\* the names allocated from the key paths of the members of a plain object
\* whose representative is a plain object, at any depth
ObjectShapeNames(object, prefix) ==
  UNION {
    LET key == object.v[i][1]
        rep == Representative(object.v[i][2])
    IN IF rep.t = "object"
       THEN {DtoName(prefix, key)}
            \cup ObjectShapeNames(rep, PrefixKey(prefix, key))
       ELSE {}
    : i \in 1..Len(object.v)}

RECURSIVE AllKeys(_)

\* every key of every object of a value
AllKeys(value) ==
  CASE value.t = "object" ->
         UNION {{value.v[i][1]} \cup AllKeys(value.v[i][2]) : i \in 1..Len(value.v)}
    [] value.t = "array" ->
         UNION {AllKeys(value.v[i]) : i \in 1..Len(value.v)}
    [] OTHER -> {}

RECURSIVE RepresentedKeys(_)

\* the keys of a plain object and of the plain objects that represent its
\* members, at any depth
RepresentedKeys(object) ==
  UNION {
    LET rep == Representative(object.v[i][2])
    IN {object.v[i][1]}
       \cup (IF rep.t = "object" THEN RepresentedKeys(rep) ELSE {})
    : i \in 1..Len(object.v)}

\* the keys that occur only in array elements that represent nothing
LaterOnlyKeys(doc) == AllKeys(doc) \ RepresentedKeys(doc)

RECURSIVE WalkSites(_, _)
RECURSIVE WalkSitesFrom(_, _, _)

\* the sites of the entries from entry i on
WalkSitesFrom(entries, i, prefix) ==
  IF i > Len(entries) THEN <<>>
  ELSE LET key == entries[i][1]
           value == entries[i][2]
           rep == Representative(value)
       IN (IF rep.t = "object" \/ (value.t = "array" /\ rep.t \in {"null", "array"})
           THEN <<[name |-> DtoName(prefix, key), value |-> rep,
                   prefix |-> PrefixKey(prefix, key)]>>
                \o WalkSites(rep, PrefixKey(prefix, key))
           ELSE <<>>)
          \o WalkSitesFrom(entries, i + 1, prefix)

\* the values processJsonProperties is called on below data, in the order of
\* the calls, each with the name it is registered under
WalkSites(data, prefix) ==
  IF data.t = "null" THEN <<>>
  ELSE WalkSitesFrom(ObjectEntries(data), 1, prefix)

SitesNamed(sites, name) == SelectSeq(sites, LAMBDA site : site.name = name)

LastSiteNamed(sites, name) ==
  LET named == SitesNamed(sites, name) IN named[Len(named)]

\* the field list of the walked value a site stands for
SiteProps(site) == processJsonProperties(site.value, site.prefix).props

\* the registry binds exactly the root name and the names of the sites
RegistryNames(sites) ==
  MapKeys(nestedDtos) = {rootDtoName} \cup {sites[i].name : i \in 1..Len(sites)}

Occurs(sub, line) ==
  \E i \in 1..(Len(line) - Len(sub) + 1) : SubSeq(line, i, i + Len(sub) - 1) = sub

\* a line exposes or declares the field of a key
NamesKey(line, key) ==
  \/ line = <<Indent, "@Expose({ name: '">> \o key \o <<"' })">>
  \/ /\ Len(line) >= Len(camelCase(key)) + 2
     /\ SubSeq(line, 1, Len(camelCase(key)) + 2) = <<Indent>> \o camelCase(key) \o <<": ">>

\* a line quotes a key as a member of a serialized example
QuotesKey(line, key) == Occurs(<<"\"">> \o key \o <<"\"", ": ">>, line)

\* the Expose lines of the fields of a written text, in order
ExposeLinesOf(text) == [i \in 1..Len(text.classContent) |-> text.classContent[i][2]]

\* the import statements generateDtoClass adds to the three fixed ones
NestedImportsOf(text) ==
  {text.imports[j] : j \in (Len(BaseImports) + 1)..Len(text.imports)}

(***************************************************************************)
(* C1                                                                      *)
(***************************************************************************)
\* C1: after the walk, every field whose value is an empty array is a
\* primitive array field of element type string (isArray, not a Reference, no
\* nestedDtoName), and a document {k: []} adds no shape to the registry.
C1_EmptyArrayIsStringArray ==
  WalkReturned =>
    /\ \A f \in AllFields :
         f.example = JArr(<<>>) =>
           f.isArray /\ f.type = TString /\ IsPrimitiveField(f)
    /\ (pc = "insert" /\ Len(jsonData.v) = 1 /\ jsonData.v[1][2] = JArr(<<>>))
         => nestedDtos = <<>>

(***************************************************************************)
(* C2                                                                      *)
(***************************************************************************)
\* the shape of a root member whose array starts with a plain object has the
\* keys of that first element, when no other shape is given its name
FirstElementShapes ==
  \A i \in 1..Len(jsonData.v) :
    LET key == jsonData.v[i][1]
        value == jsonData.v[i][2]
        name == DtoName(<<>>, key)
    IN (/\ value.t = "array" /\ value.v # <<>> /\ value.v[1].t = "object"
        /\ name # rootDtoName
        /\ Len(SitesNamed(WalkSites(jsonData, <<>>), name)) = 1)
       => /\ MapHas(nestedDtos, name)
          /\ NamesOfFields(MapGet(nestedDtos, name)) = KeysOfMembers(value.v[1].v)

\* no field of the run and no Expose or declaration line is of the key
KeyInNoField(key) ==
  /\ \A f \in AllFields : f.name # key
  /\ \A i \in 1..Len(files) :
       \A j \in 1..Len(files[i].text.classContent) :
         LET block == files[i].text.classContent[j]
         IN \A l \in 2..Len(block) : ~NamesKey(block[l], key)

\* no ApiProperty line of a written file quotes the key
KeyInNoExample(key) ==
  \A i \in 1..Len(files) :
    \A j \in 1..Len(files[i].text.classContent) :
      ~QuotesKey(files[i].text.classContent[j][1], key)

\* every field of the run is made from a member of the root or of a value the
\* walker descended into: the first element of an array, never a later one
FieldsFromWalkedValues ==
  LET walked == <<[name |-> rootDtoName, value |-> jsonData, prefix |-> <<>>]>>
                \o WalkSites(jsonData, <<>>)
  IN \A f \in AllFields :
       \E i \in 1..Len(walked) :
         LET entries == ObjectEntries(walked[i].value)
         IN \E j \in 1..Len(entries) :
              entries[j][1] = f.name /\ entries[j][2] = f.example

C3_FieldsInInsertionOrder ==
  /\ WalkReturned => NamesOfFields(props) = KeysOfMembers(jsonData.v)
  /\ RootInserted =>
       LET sites == WalkSites(jsonData, <<>>)
       IN \A i \in 1..Len(sites) :
            (/\ sites[i].value.t = "object"
             /\ sites[i].name # rootDtoName
             /\ Len(SitesNamed(sites, sites[i].name)) = 1)
            => NamesOfFields(MapGet(nestedDtos, sites[i].name))
                 = KeysOfMembers(sites[i].value.v)
  /\ \A i \in 1..Len(files) :
       ExposeLinesOf(files[i].text)
         = [j \in 1..Len(nestedDtos[i].props) |-> ExposeLine(nestedDtos[i].props[j])]

(***************************************************************************)
(* C4                                                                      *)
(***************************************************************************)
\* C4: once the root is inserted, the shape names of the registry are exactly
\* the root name and the names allocated from the key path of every field
\* whose representative is a plain object, at any depth.
C4_RegistryNamesExact ==
  RootInserted =>
    MapKeys(nestedDtos) = {rootDtoName} \cup ObjectShapeNames(jsonData, <<>>)

(***************************************************************************)
(* C5                                                                      *)
(***************************************************************************)
\* C5 as claimed: when several shapes of the document, the root included,
\* are allocated one name, the final registry binds the name to the field list
\* of the shape discovered last in walk order (a parent before its
\* descendants, so the root first); the overwrite raises no error.
C5_LaterDiscoveredWins ==
  RootInserted =>
    LET sites == WalkSites(jsonData, <<>>)
    IN /\ error = ""
       /\ RegistryNames(sites)
       /\ \A name \in MapKeys(nestedDtos) :
            MapGet(nestedDtos, name)
              = IF SitesNamed(sites, name) # <<>>
                THEN SiteProps(LastSiteNamed(sites, name))
                ELSE props

\* the binding of every name once the root is inserted: the root's field
\* list for the root name, else that of the last walked value of that name
LastBoundWins ==
  LET sites == WalkSites(jsonData, <<>>)
  IN /\ error = ""
     /\ RegistryNames(sites)
     /\ \A name \in MapKeys(nestedDtos) :
          MapGet(nestedDtos, name)
            = IF name = rootDtoName
              THEN props
              ELSE SiteProps(LastSiteNamed(sites, name))

\* C5 as amended: a name bound in the registry is never removed by a step of
\* the run, and when several walked values are allocated one name the registry
\* with the root inserted binds it to the field list of the one walked last (a
\* parent before its descendants, keys in Object.entries order), except that
\* the root, inserted after the walk, replaces any nested shape of the root
\* name; no error is raised.  (The binding is stated of the state each step
\* starts from; the last step, Finish, leaves the registry as it is.)
C5_LastBoundWins ==
  [][/\ MapKeys(nestedDtos) \subseteq MapKeys(nestedDtos')
     /\ RootInserted => LastBoundWins]_vars

\* a finished run where the paths a.b and aB collide on AB (the later aB
\* wins), and the nested name A equals the root name (the root wins)
C5_Witness ==
  /\ pc = "done"
  /\ rootDtoName = <<"A">>
  /\ jsonData = JObj(<< << <<"a">>, JObj(<< << <<"b">>, JObj(<<>>) >> >>) >>,
                        << <<"a", "B">>, ObjB >> >>)
  /\ NamesOfFields(MapGet(nestedDtos, <<"A", "B">>)) = << <<"b">> >>
  /\ MapGet(nestedDtos, <<"A">>) = props
  /\ Len(nestedDtos) = 2

(***************************************************************************)
(* C6                                                                      *)
(***************************************************************************)
\* C6 as claimed: with a missing, unreadable or malformed input the run
\* aborts before processJsonProperties is invoked, writes no file and creates
\* nothing on the filesystem.
C6_NothingCreatedOnBadInput ==
  /\ InputUnusable => pc \in {"args", "mkdir", "read", "aborted"}
  /\ (InputUnusable /\ pc = "aborted") =>
       /\ walkerCalls = 0
       /\ files = <<>>
       /\ mkdirCalls = 0

\* C6 as amended: with a missing, unreadable or malformed input the run
\* aborts before processJsonProperties is invoked and writes no file; the
\* registry stays empty; the output directory is the only thing the run may
\* have created, and it exists once the input is read.
C6_NoFileOnBadInput ==
  InputUnusable =>
    /\ pc \in {"args", "mkdir", "read", "aborted"}
    /\ pc = "aborted" => error \in {"ENOENT", "SyntaxError"}
    /\ walkerCalls = 0
    /\ files = <<>>
    /\ nestedDtos = <<>>
    /\ mkdirCalls \in {0, 1}
    /\ pc \in {"read", "aborted"} => outDirExists

\* a run aborted by malformed JSON after it created the output directory
C6_Witness ==
  /\ pc = "aborted"
  /\ error = "SyntaxError"
  /\ mkdirCalls = 1
  /\ files = <<>>

(***************************************************************************)
(* C7                                                                      *)
(***************************************************************************)
\* C7: no file is written before the walk has returned and the root is in
\* the registry; a finished run has written exactly one file per entry of the
\* final registry, named <ShapeName>.dto.ts and holding the class of that
\* shape, and no other file.
C7_FilesAfterRegistryComplete ==
  /\ files # <<>> =>
       /\ RootInserted
       /\ walkerCalls = 1
       /\ MapHas(nestedDtos, rootDtoName)
  /\ pc = "done" =>
       /\ Len(files) = Len(nestedDtos)
       /\ Cardinality(FileNames) = Len(files)
       /\ MapHas(nestedDtos, rootDtoName)
       /\ \A i \in 1..Len(nestedDtos) :
            /\ files[i].name = nestedDtos[i].name \o <<".dto.ts">>
            /\ files[i].text.className = nestedDtos[i].name
            /\ Len(files[i].text.classContent) = Len(nestedDtos[i].props)

\* a finished run that wrote the files of the root and of two nested shapes
C7_Witness ==
  /\ pc = "done"
  /\ Len(files) = 3
  /\ jsonData = JObj(<< << <<"a">>, JObj(<< << <<"b">>, JObj(<<>>) >> >>) >> >>)

(***************************************************************************)
(* C8                                                                      *)
(***************************************************************************)
\* C8: the walk raises no error, and every field is a Reference (isObject,
\* nestedDtoName set) exactly when its representative is a plain object;
\* otherwise it is a Primitive without nestedDtoName whose kind is the
\* classification of a null, boolean, number or string representative (string
\* for an empty array); isArray holds iff the value is an array.
C8_ReferenceIffPlainObject ==
  /\ error # "TypeError"
  /\ WalkReturned =>
       \A f \in AllFields :
         LET rep == Representative(f.example)
         IN /\ f.isArray = (f.example.t = "array")
            /\ IsReferenceField(f) \/ IsPrimitiveField(f)
            /\ IsReferenceField(f) <=> rep.t = "object"
            /\ rep.t \in {"null", "boolean", "number", "string"}
                 => f.type = KindOf(rep)
            /\ f.example = JArr(<<>>) => f.type = TString

(***************************************************************************)
(* C9                                                                      *)
(***************************************************************************)
\* the decorators the claim prescribes for a field, between the Expose line
\* and the declaration
PrescribedDecorators(f) ==
  IF f.isObject /\ f.hasNestedDtoName
  THEN << <<Indent, "@ValidateNested(", IF f.isArray THEN "{ each: true }" ELSE "", ")">>,
          <<Indent, "@Type(() => ">> \o f.nestedDtoName \o <<")">> >>
  ELSE (IF f.isArray THEN << <<Indent, "@IsArray()">> >> ELSE <<>>)
       \o << <<Indent, "@",
               CASE f.type = TNumber -> "IsNumber"
                 [] f.type = TBoolean -> "IsBoolean"
                 [] f.type = TObject -> "IsObject"
                 [] OTHER -> "IsString",
               "(", IF f.isArray THEN "{ each: true }" ELSE "", ")">> >>

PrescribedDeclaration(f) ==
  <<Indent>> \o camelCase(f.name) \o <<": ">> \o f.type
  \o <<IF f.isArray THEN "[]" ELSE "", ";">>

ReferenceFieldsOf(ps) == SelectSeq(ps, LAMBDA f : f.isObject /\ f.hasNestedDtoName)

\* C9: in every written file, a Reference field has ValidateNested (with
\* { each: true } iff isArray) followed by Type naming its shape and no other
\* validator; any other field has IsArray iff isArray, followed by the one
\* validator of its kind; the declaration is `identifier: type` with [] iff
\* isArray; and there is one import statement per Reference field, in order.
C9_DecoratorsPerField ==
  \A i \in 1..Len(files) :
    LET text == files[i].text
        ps == nestedDtos[i].props
        refs == ReferenceFieldsOf(ps)
    IN /\ Len(text.classContent) = Len(ps)
       /\ \A j \in 1..Len(ps) :
            LET block == text.classContent[j]
            IN /\ Len(block) >= 3
               /\ SubSeq(block, 3, Len(block) - 1) = PrescribedDecorators(ps[j])
               /\ block[Len(block)] = PrescribedDeclaration(ps[j])
       /\ SubSeq(text.imports, Len(BaseImports) + 1, Len(text.imports))
            = [j \in 1..Len(refs) |-> ImportLine(refs[j].nestedDtoName)]

(***************************************************************************)
(* C10                                                                     *)
(***************************************************************************)
\* every Reference field of a field list names a shape of the registry
ReferencesBound(ps) ==
  \A f \in FieldsOf(ps) : f.hasNestedDtoName => MapHas(nestedDtos, f.nestedDtoName)

\* C10: once the root is inserted, every Reference field of every field list
\* of the registry names a shape of the registry; in a finished run every
\* nested import statement of a written file names a shape whose file
\* <X>.dto.ts was written by the run.
C10_ReferentialIntegrity ==
  /\ RootInserted =>
       \A i \in 1..Len(nestedDtos) : ReferencesBound(nestedDtos[i].props)
  /\ pc = "done" =>
       \A i \in 1..Len(files) :
         \A line \in NestedImportsOf(files[i].text) :
           \E name \in MapKeys(nestedDtos) :
             /\ line = <<"import { ">> \o name \o <<" } from './">> \o name \o <<".dto';">>
             /\ (name \o <<".dto.ts">>) \in FileNames

\* a finished run where a nested name equals the root name and two nested
\* shapes collide, with a grandchild reference
C10_Witness ==
  /\ pc = "done"
  /\ rootDtoName = <<"A">>
  /\ jsonData = JObj(<< << <<"a">>, JObj(<< << <<"b">>, JObj(<<>>) >> >>) >>,
                        << <<"a", "B">>, ObjB >> >>)
  /\ \E i \in 1..Len(files) : NestedImportsOf(files[i].text) # {}

====
